---- MODULE Spec2Model ----
(***************************************************************************)
(* Model of PhoneTeleop (python_teleop/phone_teleop/teleop_phone.py): the  *)
(* caller thread (connect / disconnect / get_action), the background       *)
(* websocket worker threads started by connect(), and the phone (peer).    *)
(*                                                                         *)
(* Units.  Velocities and positions are integers in hundredths (1.0 is     *)
(* 100, the deadband 0.01 is 1, the joint limit 100 is 10000).  Time is in *)
(* half seconds, so that `velocity * dt * 60` is (v * dt * 60) \div 2.     *)
(***************************************************************************)
EXTENDS Integers, Sequences, FiniteSets, TLC

VARIABLES
    \* ---- PhoneTeleop fields (teleop_phone.py:39-81)
    websocket,                \* self.websocket: 0 (None) or the worker whose connection it is
    loop,                     \* self.loop: 0 (None) or the worker that owns the event loop
    websocket_thread,         \* self.websocket_thread: 0 (None) or a worker
    feedback,                 \* coroutines send_feedback scheduled on each worker's loop, not yet run
    action_queue,             \* self.action_queue: Queue(maxsize=10)
    current_velocity_action,  \* self.current_velocity_action
    current_joint_positions,  \* self.current_joint_positions
    last_time,                \* self.last_time
    _connected,               \* self._connected
    _phone_connected,         \* self._phone_connected
    \* ---- the caller thread
    cpc,                      \* position of the caller thread
    joint_velocities,         \* local of get_action (lines 270-277)
    ret,                      \* outcome of the last call that returned
    \* ---- the worker threads
    wpc,                      \* position of each worker thread
    stop,                     \* state of loop.stop() on each worker's event loop
    \* ---- environment
    peer_up,                  \* whether the phone server accepts connections
    now,                      \* time.time()
    \* ---- history (not read by any action's guard or update of program state)
    lastDequeued,             \* last command get_action took out of the queue
    lastReceived,             \* last action command whose processing completed
    lastFrame,                \* class of the last frame handed to _process_message
    overflowed,               \* a put_nowait found the queue full since the last drain ended
    gaOverflowed,             \* overflowed when the running get_action started
    gaQuiet,                  \* no frame was in or entered processing during the call
    gaEmpty,                  \* the running get_action found the queue empty at once
    phase                     \* "new" | "timed_out" | "connected" | "disconnected"

vars == <<websocket, loop, websocket_thread, feedback, action_queue, current_velocity_action,
          current_joint_positions, last_time, _connected, _phone_connected,
          cpc, joint_velocities, ret, wpc, stop, peer_up, now,
          lastDequeued, lastReceived, lastFrame, overflowed, gaOverflowed, gaQuiet, gaEmpty, phase>>

\* The fields of PhoneTeleop and the run state of its threads.
progVars == <<websocket, loop, websocket_thread, feedback, action_queue, current_velocity_action,
              current_joint_positions, last_time, _connected, _phone_connected,
              wpc, stop>>

histVars == <<lastDequeued, lastReceived, lastFrame, overflowed, gaOverflowed, gaQuiet, gaEmpty, phase>>

-----------------------------------------------------------------------------
\* Bounds of the model.

\* Number of worker threads connect() may start in one behaviour.
MaxWorkers == 2
\* Frames the phone sends only while fewer than this many commands are queued.
MaxPending == 2
\* The clock stops advancing at this time (half seconds).
MaxNow == 4
\* send_feedback() is called only while fewer than this many of the
\* coroutines it scheduled on the loop are waiting to run.
MaxFeedback == 2

\* Program constants.
QueueCap == 10
max_linear_velocity == 30
max_angular_velocity == 50
Deadband == 1
ScaleFactor == 60
JointLimit == 10000

Workers == 1 .. MaxWorkers
None == 0

-----------------------------------------------------------------------------
\* Commands and frames.

BaseKeys == {"x.vel", "y.vel", "theta.vel"}
JointOrder == <<"shoulder_pan", "shoulder_lift", "elbow_flex",
                "wrist_flex", "wrist_roll", "gripper">>
Joints == {JointOrder[i] : i \in 1 .. Len(JointOrder)}
VelKey(j) == j \o ".vel"
Fields == BaseKeys \cup {VelKey(j) : j \in Joints}

\* A JSON value that is not a number (a string, a list, null).
NonNumeric == 0 - 10 ^ 9
IsNumber(v) == v # NonNumeric

ZeroAction == [k \in Fields |-> 0]

HomePose == [j \in Joints |->
               CASE j = "shoulder_pan" -> 0
                 [] j = "shoulder_lift" -> -9000
                 [] j = "elbow_flex" -> 9000
                 [] j = "wrist_flex" -> -5000
                 [] j = "wrist_roll" -> -5000
                 [] j = "gripper" -> 5000]

Min(a, b) == IF b < a THEN b ELSE a
Max(a, b) == IF b > a THEN b ELSE a
Abs(v) == IF v < 0 THEN 0 - v ELSE v

\* dict.get(key, default)
Get(data, k, d) == IF k \in DOMAIN data THEN data[k] ELSE d

-----------------------------------------------------------------------------
\* Frames the phone sends.  A frame is the text handed to json.loads: `parse`
\* says what json.loads makes of it, `type` is data.get("type") and `data`
\* the other keys.

FrameScenario ==
    [parse |-> "object", type |-> "action",
     data |-> ("x.vel" :> 35 @@ "shoulder_pan.vel" :> 100)]
FrameHuge ==
    [parse |-> "object", type |-> "action",
     data |-> ("x.vel" :> 0 - 10 ^ 6 @@ "y.vel" :> 10 ^ 6 @@ "theta.vel" :> 0 - 10 ^ 6
               @@ "gripper.vel" :> 0 - 10 ^ 6 @@ "elbow_flex.vel" :> 10 ^ 6
               @@ "wrist_flex.vel" :> 1)]
FrameMalformed ==
    [parse |-> "malformed", type |-> "none", data |-> <<>>]

Frames == {FrameScenario, FrameHuge, FrameMalformed}

\* {"type": "action", "y.vel": 0.2}: a base velocity and no joint velocity.
FrameBaseOnly ==
    [parse |-> "object", type |-> "action", data |-> ("y.vel" :> 20)]
\* {"type": "emergency_stop"}
FrameEmergencyStop ==
    [parse |-> "object", type |-> "emergency_stop", data |-> ("x.vel" :> 0)]
\* {"x.vel": 0.2}: data.get("type") is None.
FrameNoType ==
    [parse |-> "object", type |-> "None", data |-> ("x.vel" :> 20)]
\* {"type": "teleport", "x.vel": 0.2}
FrameUnknownType ==
    [parse |-> "object", type |-> "teleport", data |-> ("x.vel" :> 20)]

\* [1, 2]: JSON that is not an object, so that data.get raises AttributeError.
FrameNotObject ==
    [parse |-> "not_object", type |-> "none", data |-> <<>>]
\* {"type": "action", "x.vel": 0.2, "gripper.vel": "fast"}
FrameNonNumeric ==
    [parse |-> "object", type |-> "action",
     data |-> ("x.vel" :> 20 @@ "gripper.vel" :> NonNumeric)]
\* {"type": "action", "x.vel": "fast", "shoulder_pan.vel": 1.0}
FrameNonNumericBase ==
    [parse |-> "object", type |-> "action",
     data |-> ("x.vel" :> NonNumeric @@ "shoulder_pan.vel" :> 100)]

\* Frames that are not a command: text json.loads rejects, and objects
\* whose type is missing or is none of the kinds of message the phone sends.
BadFrames == {FrameMalformed, FrameNoType, FrameUnknownType}

\* What a frame is to the phone that sent it.
FrameClass(frame) ==
    IF frame.parse = "object" /\ frame.type = "action" THEN "action"
    ELSE IF frame.parse = "object" /\ frame.type = "emergency_stop" THEN "emergency_stop"
    ELSE "invalid"

\* The base velocity taken from the message as it is.
ClampVel_unlimited(limit, v) == v

\* max(-limit, min(limit, v)), lines 204-209
ClampVel(limit, v) == Max(0 - limit, Min(limit, v))

\* A field the message omits keeping the value of the current command.
DecodeAction_merge(data) ==
    [k \in Fields |->
        CASE k \in {"x.vel", "y.vel"} ->
                 ClampVel(max_linear_velocity, Get(data, k, current_velocity_action[k]))
          [] k = "theta.vel" ->
                 ClampVel(max_angular_velocity, Get(data, k, current_velocity_action[k]))
          [] OTHER -> Get(data, k, current_velocity_action[k])]

\* The dictionary built at lines 191-222 from an action message.
DecodeAction(data) ==
    [k \in Fields |->
        CASE k \in {"x.vel", "y.vel"} -> ClampVel(max_linear_velocity, Get(data, k, 0))
          [] k = "theta.vel" -> ClampVel(max_angular_velocity, Get(data, k, 0))
          [] OTHER -> Get(data, k, 0)]

\* What _process_message does with a frame (lines 185-238):
\*   set: line 212 is reached and assigns cmd;  put: line 231 is reached.
ProcessMessage(frame) ==
    IF frame.parse # "object"
    THEN [set |-> FALSE, put |-> FALSE, cmd |-> ZeroAction]       \* lines 235-238
    ELSE IF frame.type # "action"
    THEN [set |-> FALSE, put |-> FALSE, cmd |-> ZeroAction]       \* line 189 is false
    ELSE IF \E k \in BaseKeys : ~IsNumber(Get(frame.data, k, 0))
    THEN [set |-> FALSE, put |-> FALSE, cmd |-> ZeroAction]       \* TypeError at 204-209
    ELSE [set |-> TRUE,
          put |-> \A j \in Joints : IsNumber(Get(frame.data, VelKey(j), 0)),  \* abs() at 225
          cmd |-> DecodeAction(frame.data)]

-----------------------------------------------------------------------------
\* The integrator of get_action (lines 279-289).

\* Every joint, the gripper too, limited to the symmetric range.
ClampPos_symmetric(j, p) == Max(0 - JointLimit, Min(JointLimit, p))

\* max(lo, min(hi, p)), lines 287 and 289
ClampPos(j, p) ==
    IF j = "gripper" THEN Max(0, Min(JointLimit, p))
    ELSE Max(0 - JointLimit, Min(JointLimit, p))

\* A velocity equal to the deadband moving the joint too.
IntegrateJoint_inclusive(j, p, velocity, dt) ==
    IF Abs(velocity) >= Deadband
    THEN ClampPos(j, p + (velocity * dt * ScaleFactor) \div 2)
    ELSE p

\* One iteration of the loop at line 280.
IntegrateJoint(j, p, velocity, dt) ==
    IF Abs(velocity) > Deadband
    THEN ClampPos(j, p + (velocity * dt * ScaleFactor) \div 2)
    ELSE p

\* The loop at line 280 from joint i on; it stops at the first velocity that
\* is not a number (abs() raises TypeError), keeping the joints done so far.
RECURSIVE Integrate(_, _, _, _)
Integrate(i, pos, jv, dt) ==
    IF i > Len(JointOrder) THEN [ok |-> TRUE, pos |-> pos]
    ELSE LET j == JointOrder[i] IN
         IF ~IsNumber(jv[j]) THEN [ok |-> FALSE, pos |-> pos]
         ELSE Integrate(i + 1, [pos EXCEPT ![j] = IntegrateJoint(j, pos[j], jv[j], dt)], jv, dt)

\* The gripper driven by the sideways base velocity.
JointVelocitiesOf_base(cmd) ==
    [j \in Joints |-> IF j = "gripper" THEN cmd["y.vel"] ELSE cmd[VelKey(j)]]

\* lines 270-277
JointVelocitiesOf(cmd) == [j \in Joints |-> cmd[VelKey(j)]]
NoJointVelocities == [j \in Joints |-> 0]

\* lines 292-304
ActionKeys == BaseKeys \cup {"arm_" \o j \o ".pos" : j \in Joints}
MakeAction(cmd, pos) ==
    [k \in ActionKeys |->
        IF k \in BaseKeys THEN cmd[k]
        ELSE pos[CHOOSE j \in Joints : k = "arm_" \o j \o ".pos"]]

\* line 108
is_connected == _connected /\ _phone_connected

-----------------------------------------------------------------------------
\* State after PhoneTeleop.__init__ (lines 39-81).

NoReturn == [op |-> "none", outcome |-> "none", action |-> <<>>]
Returned(op, outcome) == [op |-> op, outcome |-> outcome, action |-> <<>>]

Init ==
    /\ websocket = None
    /\ loop = None
    /\ websocket_thread = None
    /\ feedback = [w \in Workers |-> 0]
    /\ action_queue = <<>>
    /\ current_velocity_action = ZeroAction
    /\ current_joint_positions = HomePose
    /\ last_time = 0
    /\ _connected = FALSE
    /\ _phone_connected = FALSE
    /\ cpc = "idle"
    /\ joint_velocities = NoJointVelocities
    /\ ret = NoReturn
    /\ wpc = [w \in Workers |-> "unstarted"]
    /\ stop = [w \in Workers |-> "no"]
    /\ peer_up \in BOOLEAN
    /\ now = 0
    /\ lastDequeued = ZeroAction
    /\ lastReceived = ZeroAction
    /\ lastFrame = "none"
    /\ overflowed = FALSE
    /\ gaOverflowed = FALSE
    /\ gaQuiet = FALSE
    /\ gaEmpty = FALSE
    /\ phase = "new"

-----------------------------------------------------------------------------
\* The worker thread: _start_websocket_client (144-154) running
\* _websocket_client (156-181) on its own event loop.
\*
\* wpc: "unstarted", "started" (Thread.start() done, line 146 not yet run),
\*      "loop_check" (line 160), "connecting" (awaiting websockets.connect),
\*      "reading" (awaiting the next frame, line 168), "put" (between line
\*      212 and line 231), "check179" (line 179), "backoff" (line 181),
\*      "finally" (line 154), "done".
\* stop: "no"; "req" (loop.stop() is scheduled on the loop); "last" (the loop
\*      runs its last iteration: the coroutine runs on to its next await).

AtAwait(w) == wpc[w] \in {"connecting", "reading", "backoff"}
Alive(w) == wpc[w] \notin {"unstarted", "done"}

\* The event loop lets the coroutine take a step.
CanRun(w) == ~(stop[w] = "last" /\ AtAwait(w))
\* A step that resumes the coroutine from an await while loop.stop() is
\* scheduled is the last the loop runs.
StopAfterStep(w) ==
    IF stop[w] = "req" /\ AtAwait(w) THEN [stop EXCEPT ![w] = "last"] ELSE stop

\* line 160, the condition of `while self._connected`
loop_condition == _connected

\* lines 146-147
WorkerStart(w) ==
    /\ wpc[w] = "started"
    /\ loop' = w
    /\ wpc' = [wpc EXCEPT ![w] = "loop_check"]
    /\ UNCHANGED <<websocket, websocket_thread, feedback, action_queue, current_velocity_action,
                   current_joint_positions, last_time, _connected, _phone_connected,
                   cpc, joint_velocities, ret, stop, peer_up, now, histVars>>

\* line 160, `while self._connected`: enter the loop body
LoopEnter(w) ==
    /\ wpc[w] = "loop_check"
    /\ loop_condition
    /\ wpc' = [wpc EXCEPT ![w] = "connecting"]
    /\ UNCHANGED <<websocket, loop, websocket_thread, feedback, action_queue, current_velocity_action,
                   current_joint_positions, last_time, _connected, _phone_connected,
                   cpc, joint_velocities, ret, stop, peer_up, now, histVars>>

\* line 160 is false: the coroutine returns and run_until_complete returns.
WorkerReturn(w) ==
    /\ wpc[w] = "loop_check"
    /\ ~loop_condition
    /\ wpc' = [wpc EXCEPT ![w] = "finally"]
    /\ UNCHANGED <<websocket, loop, websocket_thread, feedback, action_queue, current_velocity_action,
                   current_joint_positions, last_time, _connected, _phone_connected,
                   cpc, joint_velocities, ret, stop, peer_up, now, histVars>>

\* line 162 succeeds; lines 163-164
ConnectionEstablished(w) ==
    /\ wpc[w] = "connecting"
    /\ CanRun(w)
    /\ peer_up
    /\ websocket' = w
    /\ _phone_connected' = TRUE
    /\ wpc' = [wpc EXCEPT ![w] = "reading"]
    /\ stop' = StopAfterStep(w)
    /\ UNCHANGED <<loop, websocket_thread, feedback, action_queue, current_velocity_action,
                   current_joint_positions, last_time, _connected,
                   cpc, joint_velocities, ret, peer_up, now, histVars>>

\* line 162 raises (refused, unreachable, handshake timeout); lines 175-177
ConnectionFailed(w) ==
    /\ wpc[w] = "connecting"
    /\ CanRun(w)
    /\ ~peer_up
    /\ _phone_connected' = FALSE
    /\ wpc' = [wpc EXCEPT ![w] = "check179"]
    /\ stop' = StopAfterStep(w)
    /\ UNCHANGED <<websocket, loop, websocket_thread, feedback, action_queue, current_velocity_action,
                   current_joint_positions, last_time, _connected,
                   cpc, joint_velocities, ret, peer_up, now, histVars>>

\* A frame that is not a JSON object ending the read loop: the exception
\* leaves _process_message and is handled at lines 175-177.
Receive_fatal(w, frame) ==
    /\ wpc[w] = "reading"
    /\ CanRun(w)
    /\ LET r == ProcessMessage(frame) IN
        /\ current_velocity_action' = IF r.set THEN r.cmd ELSE current_velocity_action
        /\ wpc' = [wpc EXCEPT ![w] = IF frame.parse # "object" THEN "check179"
                                     ELSE IF r.put THEN "put" ELSE "reading"]
        /\ _phone_connected' = IF frame.parse # "object" THEN FALSE ELSE _phone_connected
        /\ lastReceived' = IF r.put THEN r.cmd ELSE lastReceived
    /\ lastFrame' = FrameClass(frame)
    /\ stop' = StopAfterStep(w)
    /\ gaQuiet' = FALSE
    /\ UNCHANGED <<websocket, loop, websocket_thread, feedback, action_queue,
                   current_joint_positions, last_time, _connected,
                   cpc, joint_velocities, ret, peer_up, now,
                   lastDequeued, overflowed, gaOverflowed, gaEmpty, phase>>

\* lines 168-169 and _process_message up to line 227
Receive(w, frame) ==
    /\ wpc[w] = "reading"
    /\ CanRun(w)
    /\ LET r == ProcessMessage(frame) IN
        /\ current_velocity_action' = IF r.set THEN r.cmd ELSE current_velocity_action
        /\ wpc' = [wpc EXCEPT ![w] = IF r.put THEN "put" ELSE "reading"]
        /\ lastReceived' = IF r.put THEN r.cmd ELSE lastReceived
    /\ lastFrame' = FrameClass(frame)
    /\ stop' = StopAfterStep(w)
    /\ gaQuiet' = FALSE
    /\ UNCHANGED <<websocket, loop, websocket_thread, feedback, action_queue,
                   current_joint_positions, last_time, _connected, _phone_connected,
                   cpc, joint_velocities, ret, peer_up, now,
                   lastDequeued, overflowed, gaOverflowed, gaEmpty, phase>>

\* The queue taking the command whether or not it is full.
PutAction_unbounded(w) ==
    /\ wpc[w] = "put"
    /\ action_queue' = Append(action_queue, current_velocity_action)
    /\ wpc' = [wpc EXCEPT ![w] = "reading"]
    /\ overflowed' = (overflowed \/ Len(action_queue) >= QueueCap)
    /\ UNCHANGED <<websocket, loop, websocket_thread, feedback, current_velocity_action,
                   current_joint_positions, last_time, _connected, _phone_connected,
                   cpc, joint_velocities, ret, stop, peer_up, now,
                   lastDequeued, lastReceived, lastFrame, gaOverflowed, gaQuiet, gaEmpty, phase>>

\* A full queue giving up its oldest entry for the new command.
PutAction_evicts(w) ==
    /\ wpc[w] = "put"
    /\ action_queue' = IF Len(action_queue) < QueueCap
                       THEN Append(action_queue, current_velocity_action)
                       ELSE Append(Tail(action_queue), current_velocity_action)
    /\ wpc' = [wpc EXCEPT ![w] = "reading"]
    /\ overflowed' = (overflowed \/ Len(action_queue) >= QueueCap)
    /\ UNCHANGED <<websocket, loop, websocket_thread, feedback, current_velocity_action,
                   current_joint_positions, last_time, _connected, _phone_connected,
                   cpc, joint_velocities, ret, stop, peer_up, now,
                   lastDequeued, lastReceived, lastFrame, gaOverflowed, gaQuiet, gaEmpty, phase>>

\* lines 230-233: put_nowait of a copy of self.current_velocity_action
PutAction(w) ==
    /\ wpc[w] = "put"
    /\ action_queue' = IF Len(action_queue) < QueueCap
                       THEN Append(action_queue, current_velocity_action)
                       ELSE action_queue
    /\ wpc' = [wpc EXCEPT ![w] = "reading"]
    /\ overflowed' = (overflowed \/ Len(action_queue) >= QueueCap)
    /\ UNCHANGED <<websocket, loop, websocket_thread, feedback, current_velocity_action,
                   current_joint_positions, last_time, _connected, _phone_connected,
                   cpc, joint_velocities, ret, stop, peer_up, now,
                   lastDequeued, lastReceived, lastFrame, gaOverflowed, gaQuiet, gaEmpty, phase>>

\* The read loop at line 168 ends because the phone closed the connection:
\* normally after a clean close (close code 1000 or 1001; no handler runs),
\* or with ConnectionClosed after any other close (lines 171-173).
ReadLoopEnds(w, how) ==
    /\ wpc[w] = "reading"
    /\ CanRun(w)
    /\ _phone_connected' = IF how = "closed_error" THEN FALSE ELSE _phone_connected
    /\ wpc' = [wpc EXCEPT ![w] = "check179"]
    /\ stop' = StopAfterStep(w)
    /\ UNCHANGED <<websocket, loop, websocket_thread, feedback, action_queue, current_velocity_action,
                   current_joint_positions, last_time, _connected,
                   cpc, joint_velocities, ret, peer_up, now, histVars>>

\* The worker giving up after the first connection instead of looping.
CheckReconnect_gives_up(w) ==
    /\ wpc[w] = "check179"
    /\ wpc' = [wpc EXCEPT ![w] = "finally"]
    /\ UNCHANGED <<websocket, loop, websocket_thread, feedback, action_queue, current_velocity_action,
                   current_joint_positions, last_time, _connected, _phone_connected,
                   cpc, joint_velocities, ret, stop, peer_up, now, histVars>>

\* line 179
CheckReconnect(w) ==
    /\ wpc[w] = "check179"
    /\ wpc' = [wpc EXCEPT ![w] = IF _connected THEN "backoff" ELSE "loop_check"]
    /\ UNCHANGED <<websocket, loop, websocket_thread, feedback, action_queue, current_velocity_action,
                   current_joint_positions, last_time, _connected, _phone_connected,
                   cpc, joint_velocities, ret, stop, peer_up, now, histVars>>

\* line 181: the sleep is over
BackoffOver(w) ==
    /\ wpc[w] = "backoff"
    /\ CanRun(w)
    /\ wpc' = [wpc EXCEPT ![w] = "loop_check"]
    /\ stop' = StopAfterStep(w)
    /\ UNCHANGED <<websocket, loop, websocket_thread, feedback, action_queue, current_velocity_action,
                   current_joint_positions, last_time, _connected, _phone_connected,
                   cpc, joint_velocities, ret, peer_up, now, histVars>>

\* The event loop runs the scheduled loop.stop(): run_until_complete raises
\* RuntimeError, which lines 151-152 log.
WorkerStopped(w) ==
    /\ stop[w] \in {"req", "last"}
    /\ AtAwait(w)
    /\ wpc' = [wpc EXCEPT ![w] = "finally"]
    /\ UNCHANGED <<websocket, loop, websocket_thread, feedback, action_queue, current_velocity_action,
                   current_joint_positions, last_time, _connected, _phone_connected,
                   cpc, joint_velocities, ret, stop, peer_up, now, histVars>>

\* lines 153-154: the finally clause, after which the thread ends
WorkerFinally(w) ==
    /\ wpc[w] = "finally"
    /\ _phone_connected' = FALSE
    /\ wpc' = [wpc EXCEPT ![w] = "done"]
    /\ stop' = [stop EXCEPT ![w] = "no"]
    /\ UNCHANGED <<websocket, loop, websocket_thread, feedback, action_queue, current_velocity_action,
                   current_joint_positions, last_time, _connected,
                   cpc, joint_velocities, ret, peer_up, now, histVars>>

-----------------------------------------------------------------------------
\* The caller thread.
\*
\* cpc: "idle" (between calls), "connect_wait" (the loop at lines 132-133),
\*      "connect_check" (line 135), "disconnect_join" (line 417),
\*      "ga_drain" (lines 258-262), "ga_integrate" (lines 265-289),
\*      "ga_action" (lines 292-308), "returned" (a call has returned or
\*      raised and `ret` holds its outcome).

\* connect() testing the is_connected property instead of the flag.
connect_guard_is_connected == is_connected

\* line 117
connect_guard == _connected

\* disconnect() testing the peer flag instead of the connection flag.
disconnect_guard_phone == ~_phone_connected

\* line 402
disconnect_guard == ~_connected

\* line 252
get_action_guard == ~is_connected

\* connect(), lines 117-120: DeviceAlreadyConnectedError
ConnectRejected ==
    /\ cpc = "idle"
    /\ connect_guard
    /\ ret' = Returned("connect", "AlreadyConnected")
    /\ cpc' = "returned"
    /\ UNCHANGED <<progVars, joint_velocities, peer_up, now, histVars>>

\* connect(), lines 124-128: the flag is set and a new thread is started
ConnectStart(w) ==
    /\ cpc = "idle"
    /\ ~connect_guard
    /\ wpc[w] = "unstarted"
    /\ \A v \in Workers : v < w => wpc[v] # "unstarted"
    /\ _connected' = TRUE
    /\ websocket_thread' = w
    /\ wpc' = [wpc EXCEPT ![w] = "started"]
    /\ cpc' = "connect_wait"
    /\ phase' = "connecting"
    /\ UNCHANGED <<websocket, loop, feedback, action_queue, current_velocity_action,
                   current_joint_positions, last_time, _phone_connected,
                   joint_velocities, ret, stop, peer_up, now,
                   lastDequeued, lastReceived, lastFrame, overflowed, gaOverflowed, gaQuiet, gaEmpty>>

\* line 132: the wait loop ends because the flag is seen set
ConnectSeen ==
    /\ cpc = "connect_wait"
    /\ _phone_connected
    /\ cpc' = "connect_check"
    /\ UNCHANGED <<progVars, joint_velocities, ret, peer_up, now, histVars>>

\* line 132: the wait loop ends because connection_timeout_s has elapsed
ConnectTimeout ==
    /\ cpc = "connect_wait"
    /\ cpc' = "connect_check"
    /\ UNCHANGED <<progVars, joint_velocities, ret, peer_up, now, histVars>>

\* lines 135-142
ConnectCheck ==
    /\ cpc = "connect_check"
    /\ IF ~_phone_connected
       THEN /\ _connected' = FALSE
            /\ ret' = Returned("connect", "ConnectionTimeout")
            /\ phase' = "timed_out"
       ELSE /\ _connected' = _connected
            /\ ret' = Returned("connect", "ok")
            /\ phase' = "connected"
    /\ cpc' = "returned"
    /\ UNCHANGED <<websocket, loop, websocket_thread, feedback, action_queue, current_velocity_action,
                   current_joint_positions, last_time, _phone_connected,
                   joint_velocities, wpc, stop, peer_up, now,
                   lastDequeued, lastReceived, lastFrame, overflowed, gaOverflowed, gaQuiet, gaEmpty>>

\* disconnect(), lines 402-405: DeviceNotConnectedError
DisconnectRejected ==
    /\ cpc = "idle"
    /\ disconnect_guard
    /\ ret' = Returned("disconnect", "NotConnected")
    /\ cpc' = "returned"
    /\ UNCHANGED <<progVars, joint_velocities, peer_up, now, histVars>>

\* disconnect(), lines 408-416: clear the flags, schedule loop.stop() on
\* self.loop, and see whether self.websocket_thread is alive
DisconnectStart ==
    /\ cpc = "idle"
    /\ ~disconnect_guard
    /\ _connected' = FALSE
    /\ _phone_connected' = FALSE
    /\ stop' = IF loop # None /\ stop[loop] = "no" /\ wpc[loop] \notin {"finally", "done"}
               THEN [stop EXCEPT ![loop] = "req"] ELSE stop
    /\ IF websocket_thread # None /\ Alive(websocket_thread)
       THEN /\ cpc' = "disconnect_join"
            /\ ret' = ret
            /\ phase' = "disconnecting"
       ELSE /\ cpc' = "returned"
            /\ ret' = Returned("disconnect", "ok")
            /\ phase' = "disconnected"
    /\ UNCHANGED <<websocket, loop, websocket_thread, feedback, action_queue, current_velocity_action,
                   current_joint_positions, last_time, joint_velocities, wpc,
                   peer_up, now,
                   lastDequeued, lastReceived, lastFrame, overflowed, gaOverflowed, gaQuiet, gaEmpty>>

\* line 417: join returns because the thread has ended
JoinDone ==
    /\ cpc = "disconnect_join"
    /\ ~Alive(websocket_thread)
    /\ cpc' = "returned"
    /\ ret' = Returned("disconnect", "ok")
    /\ phase' = "disconnected"
    /\ UNCHANGED <<progVars, joint_velocities, peer_up, now,
                   lastDequeued, lastReceived, lastFrame, overflowed, gaOverflowed, gaQuiet, gaEmpty>>

\* line 417: join(timeout=2) returns with the thread still alive
JoinTimeout ==
    /\ cpc = "disconnect_join"
    /\ Alive(websocket_thread)
    /\ cpc' = "returned"
    /\ ret' = Returned("disconnect", "ok")
    /\ phase' = "disconnected"
    /\ UNCHANGED <<progVars, joint_velocities, peer_up, now,
                   lastDequeued, lastReceived, lastFrame, overflowed, gaOverflowed, gaQuiet, gaEmpty>>

\* get_action() draining the queue and taking the time before it tests the
\* connection.
GetActionRejected_touches ==
    /\ cpc = "idle"
    /\ get_action_guard
    /\ action_queue' = <<>>
    /\ current_velocity_action' = IF action_queue = <<>> THEN current_velocity_action
                                  ELSE action_queue[Len(action_queue)]
    /\ last_time' = now
    /\ ret' = Returned("get_action", "NotConnected")
    /\ cpc' = "returned"
    /\ UNCHANGED <<websocket, loop, websocket_thread, feedback, current_joint_positions,
                   _connected, _phone_connected, wpc, stop,
                   joint_velocities, peer_up, now, histVars>>

\* get_action(), lines 252-255: DeviceNotConnectedError
GetActionRejected ==
    /\ cpc = "idle"
    /\ get_action_guard
    /\ ret' = Returned("get_action", "NotConnected")
    /\ cpc' = "returned"
    /\ UNCHANGED <<progVars, joint_velocities, peer_up, now, histVars>>

\* get_action() passes line 252
GetActionStart ==
    /\ cpc = "idle"
    /\ ~get_action_guard
    /\ cpc' = "ga_drain"
    /\ gaOverflowed' = overflowed
    /\ gaQuiet' = \A w \in Workers : wpc[w] # "put"
    /\ gaEmpty' = TRUE
    /\ UNCHANGED <<progVars, joint_velocities, ret, peer_up, now,
                   lastDequeued, lastReceived, lastFrame, overflowed, phase>>

\* line 260: get_nowait() returns an item
DrainOne ==
    /\ cpc = "ga_drain"
    /\ action_queue # <<>>
    /\ current_velocity_action' = Head(action_queue)
    /\ action_queue' = Tail(action_queue)
    /\ lastDequeued' = Head(action_queue)
    /\ gaEmpty' = FALSE
    /\ UNCHANGED <<websocket, loop, websocket_thread, feedback,
                   current_joint_positions, last_time, _connected, _phone_connected,
                   cpc, joint_velocities, ret, wpc, stop, peer_up, now,
                   lastReceived, lastFrame, overflowed, gaOverflowed, gaQuiet, phase>>

\* lines 261-262: get_nowait() raises Empty
DrainEmpty ==
    /\ cpc = "ga_drain"
    /\ action_queue = <<>>
    /\ cpc' = "ga_integrate"
    /\ overflowed' = FALSE
    /\ UNCHANGED <<progVars, joint_velocities, ret, peer_up, now,
                   lastDequeued, lastReceived, lastFrame, gaOverflowed, gaQuiet, gaEmpty, phase>>

\* lines 265-289; a velocity that is not a number ends the call with TypeError
IntegrateStep ==
    /\ cpc = "ga_integrate"
    /\ LET dt == now - last_time
           jv == JointVelocitiesOf(current_velocity_action)
           r == Integrate(1, current_joint_positions, jv, dt)
       IN /\ last_time' = now
          /\ current_joint_positions' = r.pos
          /\ IF r.ok
             THEN /\ joint_velocities' = jv
                  /\ cpc' = "ga_action"
                  /\ ret' = ret
             ELSE /\ joint_velocities' = NoJointVelocities
                  /\ cpc' = "returned"
                  /\ ret' = Returned("get_action", "TypeError")
    /\ UNCHANGED <<websocket, loop, websocket_thread, feedback, action_queue, current_velocity_action,
                   _connected, _phone_connected, wpc, stop, peer_up, now, histVars>>

\* lines 292-308
ReturnAction ==
    /\ cpc = "ga_action"
    /\ ret' = [op |-> "get_action", outcome |-> "ok",
               action |-> MakeAction(current_velocity_action, current_joint_positions)]
    /\ cpc' = "returned"
    /\ UNCHANGED <<progVars, joint_velocities, peer_up, now, histVars>>

\* line 312
send_feedback_guard == ~_phone_connected \/ websocket = None

\* send_feedback(), lines 312-313: return without sending
SendFeedbackSkipped ==
    /\ cpc = "idle"
    /\ send_feedback_guard
    /\ ret' = Returned("send_feedback", "ok")
    /\ cpc' = "returned"
    /\ UNCHANGED <<progVars, joint_velocities, peer_up, now, histVars>>

\* send_feedback(), lines 315-322: run_coroutine_threadsafe puts the
\* coroutine on self.loop and returns a future nobody waits for; with no
\* loop it raises, which line 321 catches.
SendFeedbackScheduled ==
    /\ cpc = "idle"
    /\ ~send_feedback_guard
    /\ loop # None => feedback[loop] < MaxFeedback
    /\ feedback' = IF loop # None THEN [feedback EXCEPT ![loop] = @ + 1] ELSE feedback
    /\ ret' = Returned("send_feedback", "ok")
    /\ cpc' = "returned"
    /\ UNCHANGED <<websocket, loop, websocket_thread, action_queue, current_velocity_action,
                   current_joint_positions, last_time, _connected, _phone_connected,
                   joint_velocities, wpc, stop, peer_up, now, histVars>>

\* The loop of worker w runs a coroutine send_feedback() scheduled,
\* _send_observation_async (lines 326-398), while the worker's own coroutine
\* waits: the message is sent, or the failure is logged at line 398.
FeedbackRuns(w) ==
    /\ feedback[w] > 0
    /\ AtAwait(w)
    /\ feedback' = [feedback EXCEPT ![w] = @ - 1]
    /\ UNCHANGED <<websocket, loop, websocket_thread, action_queue, current_velocity_action,
                   current_joint_positions, last_time, _connected, _phone_connected,
                   cpc, joint_velocities, ret, wpc, stop, peer_up, now, histVars>>

\* The caller takes the outcome of the call and is free to make the next.
ResultTaken ==
    /\ cpc = "returned"
    /\ cpc' = "idle"
    /\ ret' = NoReturn
    /\ joint_velocities' = NoJointVelocities
    /\ gaOverflowed' = FALSE
    /\ gaQuiet' = FALSE
    /\ gaEmpty' = FALSE
    /\ UNCHANGED <<progVars, peer_up, now,
                   lastDequeued, lastReceived, lastFrame, overflowed, phase>>

-----------------------------------------------------------------------------
\* The environment: the phone and the clock.

\* The phone server becomes reachable or unreachable.
PeerToggles ==
    /\ peer_up' = ~peer_up
    /\ UNCHANGED <<progVars, cpc, joint_velocities, ret, now, histVars>>

\* time.time() advances.
Tick(d) ==
    /\ now + d <= MaxNow
    /\ now' = now + d
    /\ UNCHANGED <<progVars, cpc, joint_velocities, ret, peer_up, histVars>>

TickSizes == {1, 3}
CloseKinds == {"closed_ok", "closed_error"}

-----------------------------------------------------------------------------
\* Lifecycle: every call of the caller thread, up to MaxWorkers worker
\* threads, one kind of action frame sent while the queue is empty, the
\* phone reachable or not for the whole behaviour, the clock standing still.
LifeFrames == {FrameScenario}

Next ==
    \/ \E w \in Workers : WorkerStart(w)
    \/ \E w \in Workers : LoopEnter(w)
    \/ \E w \in Workers : WorkerReturn(w)
    \/ \E w \in Workers : ConnectionEstablished(w)
    \/ \E w \in Workers : ConnectionFailed(w)
    \/ \E w \in Workers, frame \in LifeFrames :
          action_queue = <<>> /\ Receive(w, frame)
    \/ \E w \in Workers : PutAction(w)
    \/ \E w \in Workers, how \in CloseKinds : ReadLoopEnds(w, how)
    \/ \E w \in Workers : CheckReconnect(w)
    \/ \E w \in Workers : BackoffOver(w)
    \/ \E w \in Workers : WorkerStopped(w)
    \/ \E w \in Workers : WorkerFinally(w)
    \/ ConnectRejected
    \/ \E w \in Workers : ConnectStart(w)
    \/ ConnectSeen
    \/ ConnectTimeout
    \/ ConnectCheck
    \/ DisconnectRejected
    \/ DisconnectStart
    \/ JoinDone
    \/ JoinTimeout
    \/ GetActionRejected
    \/ GetActionStart
    \/ DrainOne
    \/ DrainEmpty
    \/ IntegrateStep
    \/ ReturnAction
    \/ ResultTaken

Spec == Init /\ [][Next]_vars

\* Lifecycle of the flags and the threads alone: as Next, but the phone sends
\* no frame, so that the queue stays empty, and it goes up and down.
NextLifecycle ==
    \/ \E w \in Workers : WorkerStart(w)
    \/ \E w \in Workers : LoopEnter(w)
    \/ \E w \in Workers : WorkerReturn(w)
    \/ \E w \in Workers : ConnectionEstablished(w)
    \/ \E w \in Workers : ConnectionFailed(w)
    \/ \E w \in Workers, how \in CloseKinds : ReadLoopEnds(w, how)
    \/ \E w \in Workers : CheckReconnect(w)
    \/ \E w \in Workers : BackoffOver(w)
    \/ \E w \in Workers : WorkerStopped(w)
    \/ \E w \in Workers : WorkerFinally(w)
    \/ ConnectRejected
    \/ \E w \in Workers : ConnectStart(w)
    \/ ConnectSeen
    \/ ConnectTimeout
    \/ ConnectCheck
    \/ DisconnectRejected
    \/ DisconnectStart
    \/ JoinDone
    \/ JoinTimeout
    \/ GetActionRejected
    \/ GetActionStart
    \/ DrainEmpty
    \/ IntegrateStep
    \/ ReturnAction
    \/ ResultTaken
    \/ PeerToggles

SpecLifecycle == Init /\ [][NextLifecycle]_vars

\* Data path: one worker thread, every kind of frame, sent while fewer than
\* MaxPending commands are queued, the clock advancing, the phone going up
\* and down.
NextData ==
    \/ WorkerStart(1)
    \/ LoopEnter(1)
    \/ WorkerReturn(1)
    \/ ConnectionEstablished(1)
    \/ ConnectionFailed(1)
    \/ \E frame \in Frames : Len(action_queue) < MaxPending /\ Receive(1, frame)
    \/ PutAction(1)
    \/ \E how \in CloseKinds : ReadLoopEnds(1, how)
    \/ CheckReconnect(1)
    \/ BackoffOver(1)
    \/ WorkerStopped(1)
    \/ WorkerFinally(1)
    \/ ConnectRejected
    \/ ConnectStart(1)
    \/ ConnectSeen
    \/ ConnectTimeout
    \/ ConnectCheck
    \/ DisconnectRejected
    \/ DisconnectStart
    \/ JoinDone
    \/ JoinTimeout
    \/ GetActionRejected
    \/ GetActionStart
    \/ DrainOne
    \/ DrainEmpty
    \/ IntegrateStep
    \/ ReturnAction
    \/ ResultTaken
    \/ PeerToggles
    \/ \E d \in TickSizes : Tick(d)

SpecData == Init /\ [][NextData]_vars

\* Queue overflow: one worker thread that stays connected, two kinds of
\* action frame sent at any rate, get_action() called at any time.
OverflowFrames == {FrameScenario, FrameHuge}

NextOverflow ==
    \/ WorkerStart(1)
    \/ LoopEnter(1)
    \/ ConnectionEstablished(1)
    \/ \E frame \in OverflowFrames : Receive(1, frame)
    \/ PutAction(1)
    \/ ConnectStart(1)
    \/ ConnectSeen
    \/ ConnectCheck
    \/ GetActionStart
    \/ DrainOne
    \/ DrainEmpty
    \/ IntegrateStep
    \/ ReturnAction
    \/ ResultTaken

InitOverflow == Init /\ peer_up

SpecOverflow == InitOverflow /\ [][NextOverflow]_vars

\* Decoding: one worker thread that stays connected, frames of every class
\* sent while fewer than MaxPending commands are queued, get_action() called
\* at any time, the clock advancing.
DecodeFrames == {FrameScenario, FrameBaseOnly, FrameEmergencyStop} \cup BadFrames

NextDecode ==
    \/ WorkerStart(1)
    \/ LoopEnter(1)
    \/ ConnectionEstablished(1)
    \/ \E frame \in DecodeFrames : Len(action_queue) < MaxPending /\ Receive(1, frame)
    \/ PutAction(1)
    \/ ConnectStart(1)
    \/ ConnectSeen
    \/ ConnectCheck
    \/ GetActionStart
    \/ DrainOne
    \/ DrainEmpty
    \/ IntegrateStep
    \/ ReturnAction
    \/ ResultTaken
    \/ \E d \in TickSizes : Tick(d)

SpecDecode == InitOverflow /\ [][NextDecode]_vars

\* Feedback: one worker thread, the caller connecting, disconnecting and
\* calling send_feedback() at any time, the phone closing connections and
\* going up and down; no command frame is sent.
NextFeedback ==
    \/ WorkerStart(1)
    \/ LoopEnter(1)
    \/ WorkerReturn(1)
    \/ ConnectionEstablished(1)
    \/ ConnectionFailed(1)
    \/ \E how \in CloseKinds : ReadLoopEnds(1, how)
    \/ CheckReconnect(1)
    \/ BackoffOver(1)
    \/ WorkerStopped(1)
    \/ WorkerFinally(1)
    \/ FeedbackRuns(1)
    \/ ConnectRejected
    \/ ConnectStart(1)
    \/ ConnectSeen
    \/ ConnectTimeout
    \/ ConnectCheck
    \/ DisconnectRejected
    \/ DisconnectStart
    \/ JoinDone
    \/ JoinTimeout
    \/ SendFeedbackSkipped
    \/ SendFeedbackScheduled
    \/ ResultTaken
    \/ PeerToggles

SpecFeedback == Init /\ [][NextFeedback]_vars

\* Draining: one worker thread that stays connected, one kind of action
\* frame sent at any rate, get_action() called at any time.  The caller
\* thread is scheduled: a step of a running get_action() is eventually taken.
GetActionProgress ==
    \/ DrainOne
    \/ DrainEmpty
    \/ IntegrateStep
    \/ ReturnAction

NextStarve ==
    \/ WorkerStart(1)
    \/ LoopEnter(1)
    \/ ConnectionEstablished(1)
    \/ \E frame \in LifeFrames : Receive(1, frame)
    \/ PutAction(1)
    \/ ConnectStart(1)
    \/ ConnectSeen
    \/ ConnectCheck
    \/ GetActionStart
    \/ DrainOne
    \/ DrainEmpty
    \/ IntegrateStep
    \/ ReturnAction
    \/ ResultTaken

SpecStarve == InitOverflow /\ [][NextStarve]_vars /\ WF_vars(GetActionProgress)

\* Rejection: as the decoding runs, with the frames whose processing raises
\* an exception and one action frame that is processed to the end.
FailingFrames == {FrameMalformed, FrameNotObject, FrameNonNumeric, FrameNonNumericBase}
RejectFrames == {FrameScenario} \cup FailingFrames

NextReject ==
    \/ WorkerStart(1)
    \/ LoopEnter(1)
    \/ ConnectionEstablished(1)
    \/ \E frame \in RejectFrames : Len(action_queue) < MaxPending /\ Receive(1, frame)
    \/ PutAction(1)
    \/ ConnectStart(1)
    \/ ConnectSeen
    \/ ConnectCheck
    \/ GetActionStart
    \/ DrainOne
    \/ DrainEmpty
    \/ IntegrateStep
    \/ ReturnAction
    \/ ResultTaken
    \/ \E d \in TickSizes : Tick(d)

SpecReject == InitOverflow /\ [][NextReject]_vars

\* Reconnection: one worker thread, the caller connecting and disconnecting,
\* the phone closing connections and going up and down.  The worker thread
\* is scheduled: a step it can take on its own is eventually taken.
WorkerProgress(w) ==
    \/ WorkerStart(w)
    \/ LoopEnter(w)
    \/ WorkerReturn(w)
    \/ ConnectionEstablished(w)
    \/ ConnectionFailed(w)
    \/ PutAction(w)
    \/ CheckReconnect(w)
    \/ BackoffOver(w)
    \/ WorkerStopped(w)
    \/ WorkerFinally(w)

NextLive ==
    \/ WorkerStart(1)
    \/ LoopEnter(1)
    \/ WorkerReturn(1)
    \/ ConnectionEstablished(1)
    \/ ConnectionFailed(1)
    \/ \E frame \in LifeFrames : action_queue = <<>> /\ Receive(1, frame)
    \/ PutAction(1)
    \/ \E how \in CloseKinds : ReadLoopEnds(1, how)
    \/ CheckReconnect(1)
    \/ BackoffOver(1)
    \/ WorkerStopped(1)
    \/ WorkerFinally(1)
    \/ ConnectStart(1)
    \/ ConnectSeen
    \/ ConnectTimeout
    \/ ConnectCheck
    \/ DisconnectStart
    \/ JoinDone
    \/ JoinTimeout
    \/ ResultTaken
    \/ PeerToggles

SpecLive == Init /\ [][NextLive]_vars /\ WF_vars(WorkerProgress(1))

TypeOK ==
    /\ websocket \in Workers \cup {None}
    /\ loop \in Workers \cup {None}
    /\ websocket_thread \in Workers \cup {None}
    /\ Len(action_queue) <= QueueCap
    /\ _connected \in BOOLEAN
    /\ _phone_connected \in BOOLEAN

-----------------------------------------------------------------------------
\* Properties.

\* The command a get_action() that has returned has used: the base velocities
\* of its result and the joint velocities it integrated.
Used(cmd) ==
    /\ \A k \in BaseKeys : ret.action[k] = cmd[k]
    /\ joint_velocities = JointVelocitiesOf(cmd)

GetActionReturned == cpc = "returned" /\ ret.op = "get_action" /\ ret.outcome = "ok"

\* A worker holds an established connection whose end it has not seen.
HasConnection(w) == wpc[w] \in {"reading", "put"}

\* C1: when more than QueueCap action messages were received since the last
\* drain and none is received while get_action() runs, the command that
\* get_action() uses and returns is the last message received.
C1_LatestAfterOverflow ==
    (GetActionReturned /\ gaOverflowed /\ gaQuiet) => Used(lastReceived)

\* C2: is_connected implies that a worker holds a live connection, and the
\* peer reference self.websocket is cleared once its connection has ended.
C2_DisconnectedWhenPeerLost ==
    /\ is_connected => \E w \in Workers : HasConnection(w)
    /\ websocket # None => HasConnection(websocket)

\* C3: after a successful connect() and until disconnect() is called, a
\* worker that lost its connection or failed an attempt starts a new attempt;
\* and if from some time on the phone stays reachable and disconnect() is not
\* called, the worker holds a connection again and again.
C3_Reconnects ==
    /\ (phase = "connected" /\ wpc[1] \in {"check179", "backoff"})
          ~> (wpc[1] = "connecting" \/ phase # "connected")
    /\ <>[](peer_up /\ phase = "connected") => []<>(HasConnection(1) /\ _phone_connected)

\* C3 witness: after a successful connect() the worker is dialling again.
C3_Witness == phase = "connected" /\ wpc[1] = "connecting" /\ peer_up

\* C4: a connect() call made after a connect() that succeeded, with no
\* disconnect() since, raises AlreadyConnected, starts no thread and changes
\* nothing; a get_action() call made when no connect() has succeeded since
\* construction or since the last disconnect() raises NotConnected.
C4_SecondConnectRejected ==
    [][ /\ (phase = "connected" /\ (ConnectRejected \/ \E w \in Workers : ConnectStart(w)))
            => (ret'.outcome = "AlreadyConnected" /\ UNCHANGED progVars)
        /\ (phase \in {"new", "timed_out", "disconnected"}
              /\ (GetActionRejected \/ GetActionStart))
            => ret'.outcome = "NotConnected" ]_vars

\* C4 witness: connect() was rejected while the worker was in its backoff.
C4_Witness ==
    /\ cpc = "returned" /\ ret = Returned("connect", "AlreadyConnected")
    /\ phase = "connected"
    /\ \E w \in Workers : wpc[w] = "backoff"

\* C5: after connect() failed by timeout, and until connect() is called
\* again, the peer flag is clear and no worker holds a connection.
C5_AbandonedAfterTimeout ==
    phase = "timed_out" => (~_phone_connected /\ \A w \in Workers : ~HasConnection(w))

\* C6: once disconnect() has returned, and until connect() is called again,
\* every worker thread has terminated and the command queue, the current
\* command and the peer flag are not written.
C6_QuietAfterDisconnect ==
    [][ phase = "disconnected" =>
          /\ \A w \in Workers : ~Alive(w)
          /\ phase' = "disconnected" =>
                /\ action_queue' = action_queue
                /\ current_velocity_action' = current_velocity_action
                /\ _phone_connected' = _phone_connected ]_vars

\* C7: a disconnect() call made before any connect(), after a connect() that
\* timed out or after a disconnect() that returned raises NotConnected and
\* leaves every field and every thread as it was.
C7_DisconnectRejected ==
    [][ (phase \in {"new", "timed_out", "disconnected"}
           /\ (DisconnectRejected \/ DisconnectStart))
          => (ret'.outcome = "NotConnected" /\ UNCHANGED progVars) ]_vars

\* C7 witness: disconnect() was rejected after a connect() that timed out,
\* although the worker of that connect() had set the peer flag by then.
C7_Witness ==
    /\ cpc = "returned" /\ ret = Returned("disconnect", "NotConnected")
    /\ phase = "timed_out"
    /\ _phone_connected

\* C8: a get_action() that found the queue empty at once used and returned
\* the last command an earlier get_action() took out of the queue, or the
\* all-zero command if none was.
C8_StickyLatest ==
    (GetActionReturned /\ gaEmpty) => Used(lastDequeued)

\* C9: every stored joint position is within its range: [0, 100] for the
\* gripper and [-100, 100] for every other joint.
C9_PositionsInRange ==
    \A j \in Joints :
        /\ current_joint_positions[j] <= JointLimit
        /\ current_joint_positions[j] >= (IF j = "gripper" THEN 0 ELSE 0 - JointLimit)

\* C9 witness: huge velocities have driven the gripper and the elbow to the
\* ends of their ranges.
C9_Witness ==
    /\ current_joint_positions["gripper"] = 0
    /\ current_joint_positions["elbow_flex"] = JointLimit
    /\ current_joint_positions["shoulder_pan"] > 0

\* The base velocities a decoded frame can carry.
PassedThrough(k) ==
    {0} \cup {ProcessMessage(frame).cmd[k] : frame \in Frames}

\* C10: every action get_action() returns has x.vel and y.vel within the
\* linear limit and theta.vel within the angular limit, each being the base
\* velocity of a decoded command (or of the initial one), not an integral.
C10_BaseVelocitiesLimited ==
    GetActionReturned =>
        /\ \A k \in {"x.vel", "y.vel"} :
              /\ ret.action[k] <= max_linear_velocity
              /\ ret.action[k] >= 0 - max_linear_velocity
        /\ ret.action["theta.vel"] <= max_angular_velocity
        /\ ret.action["theta.vel"] >= 0 - max_angular_velocity
        /\ \A k \in BaseKeys : ret.action[k] \in PassedThrough(k)

\* C10 witness: an action was returned with x.vel cut down to the negative
\* limit and y.vel to the positive one, after time had passed.
C10_Witness ==
    /\ GetActionReturned
    /\ ret.action["x.vel"] = 0 - max_linear_velocity
    /\ ret.action["y.vel"] = max_linear_velocity
    /\ last_time > 0

\* C11: a get_action() called after an emergency_stop frame was processed,
\* with no frame processed since, returns zero base velocities and
\* integrates zero joint velocities.
C11_EmergencyStopZeroes ==
    (GetActionReturned /\ lastFrame = "emergency_stop" /\ gaQuiet) => Used(ZeroAction)

\* The action frames among the frames of the decoding runs.
ActionFrames == {f \in DecodeFrames : FrameClass(f) = "action"}

\* C12: a frame that is malformed JSON, or whose type is missing or
\* unrecognized, leaves the queue, the flags and the peer reference as they
\* are and the worker reading; an action frame that follows it is decoded
\* into the current command and reaches put_nowait, which appends an entry.
C12_BadFrameDiscarded ==
    [][ /\ \A w \in Workers, f \in BadFrames :
              Receive(w, f) =>
                  /\ action_queue' = action_queue
                  /\ _phone_connected' = _phone_connected
                  /\ _connected' = _connected
                  /\ websocket' = websocket
                  /\ wpc'[w] = "reading"
        /\ \A w \in Workers, f \in ActionFrames :
              (lastFrame = "invalid" /\ Receive(w, f)) =>
                  /\ wpc'[w] = "put"
                  /\ \A k \in DOMAIN f.data \ BaseKeys :
                        current_velocity_action'[k] = f.data[k]
        /\ \A w \in Workers :
              (lastFrame = "action" /\ PutAction(w)) =>
                  Len(action_queue') = Len(action_queue) + 1 ]_vars

\* C12 witness: a frame that is not a command was processed while a command
\* was queued; the worker is reading and the bridge is connected.
C12_Witness ==
    /\ lastFrame = "invalid"
    /\ wpc[1] = "reading"
    /\ is_connected
    /\ action_queue # <<>>
    /\ cpc = "idle"

\* cmd is made of the fields of one message: every field the message omits is
\* zero and every joint velocity it carries is as sent.
FromMessage(cmd, data) ==
    \A k \in Fields :
        IF k \in DOMAIN data THEN (k \in BaseKeys \/ cmd[k] = data[k]) ELSE cmd[k] = 0

\* cmd is the initial command or made of the fields of one action message.
Whole(cmd) ==
    cmd = ZeroAction \/ \E f \in ActionFrames : FromMessage(cmd, f.data)

\* C13: processing an action message sets the current command to the fields
\* of that message, zero for each field it omits whatever the field was
\* before; the current command and every queued one is made of one message.
C13_DefaultsAndSupersede ==
    /\ [](/\ Whole(current_velocity_action)
          /\ \A i \in 1 .. Len(action_queue) : Whole(action_queue[i]))
    /\ [][ \A w \in Workers, f \in ActionFrames :
              Receive(w, f) => FromMessage(current_velocity_action', f.data) ]_vars

\* C13 witness: a message carrying y.vel alone was decoded after a message
\* carrying x.vel and shoulder_pan.vel had been taken out of the queue.
C13_Witness ==
    /\ wpc[1] = "put"
    /\ current_velocity_action["y.vel"] = 20
    /\ current_velocity_action["x.vel"] = 0
    /\ current_velocity_action["shoulder_pan.vel"] = 0
    /\ lastDequeued["shoulder_pan.vel"] = 100

\* C14: the integration of get_action() leaves every joint position as it
\* was when every joint velocity of the current command is zero, whatever
\* time has elapsed.
C14_ZeroInputIdempotent ==
    [][ (IntegrateStep /\ \A j \in Joints : current_velocity_action[VelKey(j)] = 0)
          => current_joint_positions' = current_joint_positions ]_vars

\* C14 witness: an action was returned for a command with a base velocity
\* and no joint velocity, after the arm had moved and time had passed.
C14_Witness ==
    /\ GetActionReturned
    /\ ret.action["y.vel"] = 20
    /\ joint_velocities = NoJointVelocities
    /\ current_joint_positions["shoulder_pan"] > 0
    /\ last_time > 1

\* C15: send_feedback() returns normally at once in every state, and when
\* the bridge is not connected (is_connected is false) it schedules no send.
C15_FeedbackBestEffort ==
    [][ (SendFeedbackSkipped \/ SendFeedbackScheduled) =>
            /\ ret' = Returned("send_feedback", "ok")
            /\ cpc' = "returned"
            /\ ~is_connected => feedback' = feedback ]_vars

\* C16: at most one worker thread is alive at any time.
C16_OneWorker ==
    Cardinality({w \in Workers : Alive(w)}) <= 1

\* C17: once disconnect() has returned, and until connect() is called again,
\* no worker holds a connection or reads from one, and no worker starts a
\* connection attempt or establishes a connection.
C17_DisconnectTerminal ==
    [][ (phase = "disconnected" /\ phase' = "disconnected") =>
            \A w \in Workers :
                /\ ~HasConnection(w)
                /\ wpc'[w] \in {"connecting", "reading"} => wpc'[w] = wpc[w] ]_vars

\* C18: a get_action() that has passed the connection test returns, when
\* the caller thread keeps being scheduled.
C18_GetActionReturns ==
    (cpc = "ga_drain") ~> (cpc = "returned")

\* The commands a frame of the data runs decodes to, and the initial one.
DecodedCommands ==
    {ZeroAction} \cup {ProcessMessage(frame).cmd : frame \in Frames}

\* C19: the base velocities get_action() returns and the joint velocities
\* it integrated are those of one decoded command.
C19_SingleMessage ==
    GetActionReturned => \E cmd \in DecodedCommands : Used(cmd)

\* C20: the command queue never holds more than QueueCap entries.
C20_QueueBounded ==
    Len(action_queue) <= QueueCap

\* C20 witness: the queue is full and a put_nowait has been refused.
C20_Witness ==
    /\ Len(action_queue) = QueueCap
    /\ overflowed
    /\ wpc[1] = "reading"

\* C21: a put_nowait that finds the queue full leaves the queue as it is,
\* entries and order, and the worker goes back to reading the connection.
C21_OverflowDropsNew ==
    [][ \A w \in Workers :
          (wpc[w] = "put" /\ wpc'[w] # "put" /\ Len(action_queue) = QueueCap) =>
              /\ action_queue' = action_queue
              /\ wpc'[w] = "reading"
              /\ _phone_connected' = _phone_connected ]_vars

\* C21 witness: the queue is full of one command and the command that was
\* refused, the last one received, is another.
C21_Witness ==
    /\ Len(action_queue) = QueueCap
    /\ overflowed
    /\ wpc[1] = "reading"
    /\ \A i \in 1 .. QueueCap : action_queue[i] # lastReceived

\* The position the integration step owes joint j: moved by v * dt * 60 and
\* brought back into the joint's range when |v| is above 0.01, else kept.
Expected(j, old, v, dt) ==
    IF v > Deadband \/ v < 0 - Deadband
    THEN LET moved == old + (v * dt * ScaleFactor) \div 2
             lo == IF j = "gripper" THEN 0 ELSE 0 - JointLimit
         IN IF moved < lo THEN lo ELSE IF moved > JointLimit THEN JointLimit ELSE moved
    ELSE old

\* C22: the integration of one get_action() gives every joint the position
\* Expected for the velocity the current command has for it and the time
\* elapsed since the last call; with no time elapsed no position changes; a
\* linear limit of 0.25 cuts an x.vel of 0.3 down to 0.25.
C22_IntegrationStep ==
    [][ IntegrateStep =>
          /\ \A j \in Joints :
                current_joint_positions'[j] =
                    Expected(j, current_joint_positions[j],
                             current_velocity_action[VelKey(j)], now - last_time)
          /\ now = last_time => current_joint_positions' = current_joint_positions
          /\ ClampVel(25, 30) = 25 ]_vars

\* C22 witness: the message {x.vel: 0.35, shoulder_pan.vel: 1.0} was used by
\* the first get_action(), half a second after construction: x.vel is at the
\* linear limit and shoulder_pan has moved from 0 to 30.
C22_Witness ==
    /\ GetActionReturned
    /\ last_time = 1
    /\ joint_velocities["shoulder_pan"] = 100
    /\ ret.action["x.vel"] = max_linear_velocity
    /\ ret.action["arm_shoulder_pan.pos"] = 3000

\* C23: processing a frame that raises an exception leaves the current
\* command and the queue as they were, and no get_action() fails.
C23_RejectionAtomic ==
    /\ [][ \A w \in Workers, f \in FailingFrames :
              Receive(w, f) =>
                  /\ current_velocity_action' = current_velocity_action
                  /\ action_queue' = action_queue ]_vars
    /\ [](ret.op = "get_action" => ret.outcome = "ok")

\* C24: a get_action() call that raises NotConnected leaves the queue, the
\* current command, the joint positions and last_time as they were.
C24_RejectedGetActionKeepsState ==
    [][ (cpc = "idle" /\ ret'.op = "get_action" /\ ret'.outcome = "NotConnected") =>
            /\ action_queue' = action_queue
            /\ current_velocity_action' = current_velocity_action
            /\ current_joint_positions' = current_joint_positions
            /\ last_time' = last_time ]_vars

\* C24 witness: get_action() was refused while a command was queued and
\* time had passed since the last integration.
C24_Witness ==
    /\ cpc = "returned"
    /\ ret = Returned("get_action", "NotConnected")
    /\ action_queue # <<>>
    /\ now > last_time
    /\ last_time > 0

====
